---- MODULE Spec2Model ----
(***************************************************************************)
(* Document workflow store (src/document_workflow.py): the Document        *)
(* entity, the DocumentStatus enumeration and the DocumentManager with its *)
(* JSON backing file.                                                      *)
(***************************************************************************)
EXTENDS Integers, Sequences, FiniteSets, TLC

(* ------------------------------ bounds -------------------------------- *)
\* add_document calls plus change_document_status calls on stored documents
MaxCalls == 3
\* seconds the wall clock advances
MaxTicks == 1
\* saves that fail (SpecEnv only)
MaxFaults == 1

(* ---------------------------- input sets ------------------------------ *)
Titles == {"Spec"}
Descriptions == {"desc"}
\* ids a document can get within the bounds
Ids == 1..(MaxCalls + 1)

(* --------------------------- DocumentStatus --------------------------- *)
\* an Enum member carries a machine name (.name) and a display label (.value)
\* (labels transliterated from the Cyrillic display strings of the source)
DRAFT == [name |-> "DRAFT", value |-> "Chernovik"]
REVIEW == [name |-> "REVIEW", value |-> "Na rassmotrenii"]
APPROVED == [name |-> "APPROVED", value |-> "Soglasovan"]
REJECTED == [name |-> "REJECTED", value |-> "Otklonen"]
ARCHIVED == [name |-> "ARCHIVED", value |-> "Arhivirovan"]

DocumentStatus == {DRAFT, REVIEW, APPROVED, REJECTED, ARCHIVED}

\* (new_status, comment) arguments of a status change: every status, REVIEW
\* with a comment and the others without
ChangeArgs == {<<s, IF s = REVIEW THEN "sent" ELSE "">> : s \in DocumentStatus}

StatusNames == {s.name : s \in DocumentStatus}
StatusLabels == {s.value : s \in DocumentStatus}

\* DocumentStatus[name]: lookup of a member by machine name
StatusByName(n) == CHOOSE s \in DocumentStatus : s.name = n

(* ------------------------------ clock --------------------------------- *)
\* strftime with the fields in the order "%S:%M", least significant first
strftime_seconds_first(t) == <<t % 60, t \div 60>>

\* datetime.now().strftime("%Y-%m-%d %H:%M:%S"): zero-padded fields, most
\* significant first; the model keeps the two least significant fields.
strftime(t) == <<t \div 60, t % 60>>

(* ----------------------------- Document ------------------------------- *)
\* f"Документ создан ({self.created_at})"
CreationEntry(ts) == <<"Dokument sozdan (", ts, ")">>

\* Document.__init__
Document(doc_id, title, description, now) ==
    [id |-> doc_id,
     title |-> title,
     description |-> description,
     status |-> DRAFT,
     created_at |-> now,
     updated_at |-> now,
     history |-> <<CreationEntry(now)>>]

\* the history entry with the comment suffix added even for an empty comment
TransitionEntry_always_comment(old_status, new_status, comment, ts) ==
    <<"Status izmenen s '", old_status.value, "' na '", new_status.value, "'">>
      \o <<" (", comment, ")">>
      \o <<" - ", ts>>

\* the history entry built by Document.change_status
TransitionEntry(old_status, new_status, comment, ts) ==
    <<"Status izmenen s '", old_status.value, "' na '", new_status.value, "'">>
      \o (IF comment # "" THEN <<" (", comment, ")">> ELSE <<>>)
      \o <<" - ", ts>>

\* change_status that also overwrites created_at
change_status_recreated(doc, new_status, comment, now) ==
    [doc EXCEPT !.status = new_status,
                !.created_at = now,
                !.updated_at = now,
                !.history = Append(doc.history,
                                   TransitionEntry(doc.status, new_status, comment, now))]

\* change_status that reads old_status after the status was assigned
change_status_late_old(doc, new_status, comment, now) ==
    [doc EXCEPT !.status = new_status,
                !.updated_at = now,
                !.history = Append(doc.history,
                                   TransitionEntry(new_status, new_status, comment, now))]

\* change_status that forgets to set updated_at
change_status_stale(doc, new_status, comment, now) ==
    [doc EXCEPT !.status = new_status,
                !.history = Append(doc.history,
                                   TransitionEntry(doc.status, new_status, comment, now))]

\* change_status with the new entry put first instead of last
change_status_prepend(doc, new_status, comment, now) ==
    [doc EXCEPT !.status = new_status,
                !.updated_at = now,
                !.history = <<TransitionEntry(doc.status, new_status, comment, now)>>
                              \o doc.history]

\* change_status with a guard that skips a change to the current status
change_status_guarded(doc, new_status, comment, now) ==
    IF new_status = doc.status
    THEN doc
    ELSE [doc EXCEPT !.status = new_status,
                     !.updated_at = now,
                     !.history = Append(doc.history,
                                        TransitionEntry(doc.status, new_status, comment, now))]

\* Document.change_status
change_status(doc, new_status, comment, now) ==
    [doc EXCEPT !.status = new_status,
                !.updated_at = now,
                !.history = Append(doc.history,
                                   TransitionEntry(doc.status, new_status, comment, now))]

DictKeys == {"id", "title", "description", "status", "created_at", "updated_at", "history"}

\* to_dict storing the display label of the status
to_dict_label(doc) ==
    [keys |-> DictKeys,
     id |-> doc.id,
     title |-> doc.title,
     description |-> doc.description,
     status |-> doc.status.value,
     created_at |-> doc.created_at,
     updated_at |-> doc.updated_at,
     history |-> doc.history]

\* Document.to_dict
to_dict(doc) ==
    [keys |-> DictKeys,
     id |-> doc.id,
     title |-> doc.title,
     description |-> doc.description,
     status |-> doc.status.name,
     created_at |-> doc.created_at,
     updated_at |-> doc.updated_at,
     history |-> doc.history]

\* from_dict that leaves the status the constructor set
from_dict_draft(data, now) ==
    IF ~(DictKeys \subseteq data.keys) \/ data.status \notin StatusNames
    THEN [exc |-> "KeyError", doc |-> <<>>]
    ELSE [exc |-> "none",
          doc |-> <<[Document(data.id, data.title, data.description, now)
                       EXCEPT !.created_at = data.created_at,
                              !.updated_at = data.updated_at,
                              !.history = data.history]>>]

\* Document.from_dict: a missing key or an unknown status name is a KeyError
from_dict(data, now) ==
    IF ~(DictKeys \subseteq data.keys) \/ data.status \notin StatusNames
    THEN [exc |-> "KeyError", doc |-> <<>>]
    ELSE [exc |-> "none",
          doc |-> <<[Document(data.id, data.title, data.description, now)
                       EXCEPT !.status = StatusByName(data.status),
                              !.created_at = data.created_at,
                              !.updated_at = data.updated_at,
                              !.history = data.history]>>]

(* ------------------- the documents dict (insertion-ordered) ------------ *)
\* a dict is a sequence of [key, doc] items with pairwise distinct keys
dict_has(d, k) == \E i \in 1..Len(d) : d[i].key = k

\* d.get(k): <<doc>> when present, <<>> for None
dict_get(d, k) ==
    IF dict_has(d, k)
    THEN <<d[CHOOSE i \in 1..Len(d) : d[i].key = k].doc>>
    ELSE <<>>

\* d[k] = doc: an existing key keeps its position, a new key goes last
dict_set(d, k, doc) ==
    IF dict_has(d, k)
    THEN [i \in 1..Len(d) |-> IF d[i].key = k THEN [key |-> k, doc |-> doc] ELSE d[i]]
    ELSE Append(d, [key |-> k, doc |-> doc])

\* list(d.values())
dict_values(d) == [i \in 1..Len(d) |-> d[i].doc]

(* --------------------------- backing file ------------------------------ *)
\* kind: "absent" (no file), "undecodable" (bytes that are not UTF-8),
\* "badjson" (text that is not JSON), "json" (a JSON value, held in data)
NoData == [type |-> "array", keys |-> {}, documents |-> <<>>, next_id |-> 0]
AbsentFile == [kind |-> "absent", data |-> NoData]
UndecodableFile == [kind |-> "undecodable", data |-> NoData]
BadJsonFile == [kind |-> "badjson", data |-> NoData]
JsonFile(data) == [kind |-> "json", data |-> data]

\* the loop of load_documents over data['documents']: stops at the first
\* from_dict that raises, keeping the documents stored so far
RECURSIVE load_loop(_, _, _)
load_loop(entries, docs, now) ==
    IF entries = <<>>
    THEN [documents |-> docs, exc |-> "none"]
    ELSE LET r == from_dict(Head(entries), now)
         IN IF r.exc # "none"
            THEN [documents |-> docs, exc |-> r.exc]
            ELSE load_loop(Tail(entries), dict_set(docs, r.doc[1].id, r.doc[1]), now)

\* load_documents that never reads next_id back
load_documents_no_next_id(f, now) ==
    IF f.kind = "json" /\ f.data.type = "object"
    THEN LET entries == IF "documents" \in f.data.keys THEN f.data.documents ELSE <<>>
             l == load_loop(entries, <<>>, now)
         IN [documents |-> l.documents, next_id |-> 1, exc |-> l.exc]
    ELSE [documents |-> <<>>, next_id |-> 1,
          exc |-> CASE f.kind = "undecodable" -> "UnicodeDecodeError"
                    [] f.kind = "json" -> "AttributeError"
                    [] OTHER -> "none"]

\* DocumentManager.__init__ + load_documents: only JSONDecodeError and
\* FileNotFoundError are caught
load_documents(f, now) ==
    CASE f.kind = "absent" -> [documents |-> <<>>, next_id |-> 1, exc |-> "none"]
      [] f.kind = "undecodable" ->
            [documents |-> <<>>, next_id |-> 1, exc |-> "UnicodeDecodeError"]
      [] f.kind = "badjson" -> [documents |-> <<>>, next_id |-> 1, exc |-> "none"]
      [] f.kind = "json" ->
            IF f.data.type # "object"
            THEN [documents |-> <<>>, next_id |-> 1, exc |-> "AttributeError"]
            ELSE LET entries == IF "documents" \in f.data.keys
                                THEN f.data.documents ELSE <<>>
                     l == load_loop(entries, <<>>, now)
                 IN IF l.exc # "none"
                    THEN [documents |-> l.documents, next_id |-> 1, exc |-> l.exc]
                    ELSE [documents |-> l.documents,
                          next_id |-> IF "next_id" \in f.data.keys
                                      THEN f.data.next_id ELSE 1,
                          exc |-> "none"]

\* outcomes of open(..., 'w') + json.dump: "ok"; "open_fails" (the file is
\* left as it was); "write_fails" (the file was truncated by open and holds
\* an incomplete text)
IoOutcomes == {"ok", "open_fails", "write_fails"}

\* save_documents that catches the error of a failed open or write
save_documents_swallows(docs, nid, f, io) ==
    CASE io = "ok" ->
            [file |-> JsonFile([type |-> "object",
                                keys |-> {"documents", "next_id"},
                                documents |-> [i \in 1..Len(docs) |-> to_dict(docs[i].doc)],
                                next_id |-> nid]),
             exc |-> "none"]
      [] io = "open_fails" -> [file |-> f, exc |-> "none"]
      [] io = "write_fails" -> [file |-> BadJsonFile, exc |-> "none"]

\* DocumentManager.save_documents
save_documents(docs, nid, f, io) ==
    CASE io = "ok" ->
            [file |-> JsonFile([type |-> "object",
                                keys |-> {"documents", "next_id"},
                                documents |-> [i \in 1..Len(docs) |-> to_dict(docs[i].doc)],
                                next_id |-> nid]),
             exc |-> "none"]
      [] io = "open_fails" -> [file |-> f, exc |-> "OSError"]
      [] io = "write_fails" -> [file |-> BadJsonFile, exc |-> "OSError"]

(* ------------------------- DocumentManager ----------------------------- *)
\* what a call gives back: a Document, True, False, None, or nothing (raise)
RetDocument(doc) == [kind |-> "Document", doc |-> <<doc>>]
RetTrue == [kind |-> "True", doc |-> <<>>]
RetFalse == [kind |-> "False", doc |-> <<>>]
RetNone == [kind |-> "None", doc |-> <<>>]
RetRaise == [kind |-> "raise", doc |-> <<>>]

\* add_document that saves before it advances next_id
add_document_early_save(docs, nid, f, title, description, now, io) ==
    LET doc == Document(nid, title, description, now)
        docs2 == dict_set(docs, nid, doc)
        s == save_documents(docs2, nid, f, io)
    IN [documents |-> docs2, next_id |-> nid + 1, file |-> s.file, wrote |-> TRUE,
        exc |-> s.exc,
        ret |-> IF s.exc = "none" THEN RetDocument(doc) ELSE RetRaise]

\* add_document that takes the document and the id back when the save fails
add_document_rollback(docs, nid, f, title, description, now, io) ==
    LET doc == Document(nid, title, description, now)
        docs2 == dict_set(docs, nid, doc)
        nid2 == nid + 1
        s == save_documents(docs2, nid2, f, io)
    IN IF s.exc = "none"
       THEN [documents |-> docs2, next_id |-> nid2, file |-> s.file, wrote |-> TRUE,
             exc |-> s.exc, ret |-> RetDocument(doc)]
       ELSE [documents |-> docs, next_id |-> nid, file |-> s.file, wrote |-> TRUE,
             exc |-> s.exc, ret |-> RetRaise]

\* add_document that stores the document under next_id after the increment
add_document_key_after_increment(docs, nid, f, title, description, now, io) ==
    LET doc == Document(nid, title, description, now)
        nid2 == nid + 1
        docs2 == dict_set(docs, nid2, doc)
        s == save_documents(docs2, nid2, f, io)
    IN [documents |-> docs2, next_id |-> nid2, file |-> s.file, wrote |-> TRUE,
        exc |-> s.exc,
        ret |-> IF s.exc = "none" THEN RetDocument(doc) ELSE RetRaise]

\* add_document that advances next_id before it builds the document
add_document_early_increment(docs, nid, f, title, description, now, io) ==
    LET nid2 == nid + 1
        doc == Document(nid2, title, description, now)
        docs2 == dict_set(docs, nid2, doc)
        s == save_documents(docs2, nid2, f, io)
    IN [documents |-> docs2, next_id |-> nid2, file |-> s.file, wrote |-> TRUE,
        exc |-> s.exc,
        ret |-> IF s.exc = "none" THEN RetDocument(doc) ELSE RetRaise]

\* DocumentManager.add_document
add_document(docs, nid, f, title, description, now, io) ==
    LET doc == Document(nid, title, description, now)
        docs2 == dict_set(docs, nid, doc)
        nid2 == nid + 1
        s == save_documents(docs2, nid2, f, io)
    IN [documents |-> docs2, next_id |-> nid2, file |-> s.file, wrote |-> TRUE,
        exc |-> s.exc,
        ret |-> IF s.exc = "none" THEN RetDocument(doc) ELSE RetRaise]

\* DocumentManager.get_document
get_document(docs, doc_id) ==
    LET d == dict_get(docs, doc_id)
    IN IF d = <<>> THEN RetNone ELSE RetDocument(d[1])

\* DocumentManager.get_all_documents
get_all_documents(docs) == dict_values(docs)

\* the filter keeping the documents whose status differs from the selected one
filter_by_status_other(docs, selected_status) ==
    LET Keep(doc) == doc.status # selected_status
    IN SelectSeq(get_all_documents(docs), Keep)

\* DocumentWorkflowApp.search_documents_by_status: filtered_docs
filter_by_status(docs, selected_status) ==
    LET Keep(doc) == doc.status = selected_status
    IN SelectSeq(get_all_documents(docs), Keep)

\* change_document_status that saves whether or not the document was found
change_document_status_always_saves(docs, nid, f, doc_id, new_status, comment, now, io) ==
    LET d == get_document(docs, doc_id)
        docs2 == IF d.kind = "Document"
                 THEN dict_set(docs, doc_id,
                               change_status(d.doc[1], new_status, comment, now))
                 ELSE docs
        s == save_documents(docs2, nid, f, io)
    IN [documents |-> docs2, next_id |-> nid, file |-> s.file, wrote |-> TRUE,
        exc |-> s.exc,
        ret |-> IF s.exc # "none" THEN RetRaise
                ELSE IF d.kind = "Document" THEN RetTrue ELSE RetFalse]

\* change_document_status that treats ARCHIVED as a terminal status
change_document_status_terminal(docs, nid, f, doc_id, new_status, comment, now, io) ==
    LET d == get_document(docs, doc_id)
    IN IF d.kind = "Document" /\ d.doc[1].status # ARCHIVED
       THEN LET docs2 == dict_set(docs, doc_id,
                                  change_status(d.doc[1], new_status, comment, now))
                s == save_documents(docs2, nid, f, io)
            IN [documents |-> docs2, next_id |-> nid, file |-> s.file, wrote |-> TRUE,
                exc |-> s.exc,
                ret |-> IF s.exc = "none" THEN RetTrue ELSE RetRaise]
       ELSE [documents |-> docs, next_id |-> nid, file |-> f, wrote |-> FALSE,
             exc |-> "none", ret |-> RetFalse]

\* DocumentManager.change_document_status
change_document_status(docs, nid, f, doc_id, new_status, comment, now, io) ==
    LET d == get_document(docs, doc_id)
    IN IF d.kind = "Document"
       THEN LET docs2 == dict_set(docs, doc_id,
                                  change_status(d.doc[1], new_status, comment, now))
                s == save_documents(docs2, nid, f, io)
            IN [documents |-> docs2, next_id |-> nid, file |-> s.file, wrote |-> TRUE,
                exc |-> s.exc,
                ret |-> IF s.exc = "none" THEN RetTrue ELSE RetRaise]
       ELSE [documents |-> docs, next_id |-> nid, file |-> f, wrote |-> FALSE,
             exc |-> "none", ret |-> RetFalse]

(* --------------------------- state machine ----------------------------- *)
VARIABLES
    documents,  \* self.documents of the current DocumentManager
    next_id,    \* self.next_id
    file,       \* content of self.data_file
    alive,      \* FALSE when the constructor raised: there is no manager
    clock,      \* wall clock, in seconds
    result,     \* the last call: operation, arguments and outcome
    returned,   \* ids of the documents returned by add_document, in order
    applied,    \* per id, the number of Document.change_status calls applied
    calls,      \* the number of calls that reached save_documents
    faults      \* the number of saves that failed

vars == <<documents, next_id, file, alive, clock, result, returned, applied, calls,
          faults>>

Result(op, ret, exc, wrote) == [op |-> op, ret |-> ret, exc |-> exc, wrote |-> wrote]

now == strftime(clock)

\* ids the caller passes to get_document / change_document_status: every id
\* the manager has handed out and the one it would hand out next
CallIds == 1..next_id

\* DocumentManager(data_file): the state after construction on file f
Construct(f) ==
    LET l == load_documents(f, now)
    IN /\ documents' = l.documents
       /\ next_id' = l.next_id
       /\ alive' = (l.exc = "none")
       /\ result' = Result("init", IF l.exc = "none" THEN RetNone ELSE RetRaise,
                           l.exc, FALSE)

InitWith(f) ==
    /\ file = f
    /\ clock = 59
    /\ LET l == load_documents(f, strftime(59))
       IN /\ documents = l.documents
          /\ next_id = l.next_id
          /\ alive = (l.exc = "none")
          /\ result = Result("init", IF l.exc = "none" THEN RetNone ELSE RetRaise,
                             l.exc, FALSE)
    /\ returned = <<>>
    /\ applied = [i \in Ids |-> 0]
    /\ calls = 0
    /\ faults = 0

\* a manager constructed while the backing file does not exist
Init == InitWith(AbsentFile)

\* manager.add_document(title, description), the save ending as io
DoAdd(title, description, io) ==
    /\ alive
    /\ calls < MaxCalls
    /\ calls' = calls + 1
    /\ LET r == add_document(documents, next_id, file, title, description, now, io)
       IN /\ documents' = r.documents
          /\ next_id' = r.next_id
          /\ file' = r.file
          /\ result' = Result("add", r.ret, r.exc, r.wrote)
          /\ returned' = IF r.ret.kind = "Document"
                         THEN Append(returned, r.ret.doc[1].id) ELSE returned
    /\ UNCHANGED <<alive, clock, applied>>

\* manager.change_document_status(doc_id, new_status, comment)
DoChange(doc_id, new_status, comment, io) ==
    /\ alive
    /\ dict_has(documents, doc_id) => calls < MaxCalls
    /\ calls' = IF dict_has(documents, doc_id) THEN calls + 1 ELSE calls
    /\ LET r == change_document_status(documents, next_id, file,
                                       doc_id, new_status, comment, now, io)
       IN /\ documents' = r.documents
          /\ next_id' = r.next_id
          /\ file' = r.file
          /\ result' = Result("change", r.ret, r.exc, r.wrote)
    /\ applied' = IF dict_has(documents, doc_id)
                  THEN [applied EXCEPT ![doc_id] = @ + 1] ELSE applied
    /\ UNCHANGED <<alive, clock, returned>>

AddDocument ==
    /\ \E t \in Titles, d \in Descriptions : DoAdd(t, d, "ok")
    /\ UNCHANGED faults

ChangeDocumentStatus ==
    /\ \E i \in CallIds, a \in ChangeArgs : DoChange(i, a[1], a[2], "ok")
    /\ UNCHANGED faults

\* manager.get_document(doc_id)
DoGet(doc_id) ==
    /\ alive
    /\ result' = Result("get", get_document(documents, doc_id), "none", FALSE)
    /\ UNCHANGED <<documents, next_id, file, alive, clock, returned, applied, calls,
                   faults>>

GetDocument == \E i \in CallIds : DoGet(i)

\* a new DocumentManager is constructed on the same file
Reload ==
    /\ Construct(file)
    /\ UNCHANGED <<file, clock, returned, applied, calls, faults>>

\* a second passes
Tick ==
    /\ clock < 59 + MaxTicks
    /\ clock' = clock + 1
    /\ result' = Result("tick", RetNone, "none", FALSE)
    /\ UNCHANGED <<documents, next_id, file, alive, returned, applied, calls, faults>>

Next == AddDocument \/ ChangeDocumentStatus \/ GetDocument \/ Reload \/ Tick

\* every save succeeds and the file is only written by the program
Spec == Init /\ [][Next]_vars

(* ------------------------- search by status ---------------------------- *)
RetList(docs) == [kind |-> "list", doc |-> docs]

\* the filter of search_documents_by_status for one selected status
DoSearch(selected_status) ==
    /\ alive
    /\ result' = Result("search", RetList(filter_by_status(documents, selected_status)),
                        "none", FALSE)
    /\ UNCHANGED <<documents, next_id, file, alive, clock, returned, applied, calls,
                   faults>>

SearchDocumentsByStatus == \E s \in DocumentStatus : DoSearch(s)

NextQuery == Next \/ SearchDocumentsByStatus

\* Spec with the search by status among the operations
SpecQuery == Init /\ [][NextQuery]_vars

(* ------------- failing saves and files not written by save ------------- *)
\* a document entry as an earlier run of the program would have saved it
SavedEntry == to_dict(Document(1, "Spec", "desc", strftime(0)))

ObjectData(keys, entries, nid) ==
    [type |-> "object", keys |-> keys, documents |-> entries, next_id |-> nid]

\* what the backing file may hold when the first manager is constructed:
\* nothing, bytes cut inside a multi-byte character, cut JSON text, the JSON
\* texts [] and {}, an entry without its title, an entry whose status is a
\* display label
InitialFiles ==
    {AbsentFile, UndecodableFile, BadJsonFile,
     JsonFile(NoData),
     JsonFile(ObjectData({}, <<>>, 0)),
     JsonFile(ObjectData({"documents", "next_id"},
                         <<SavedEntry,
                           [SavedEntry EXCEPT !.id = 2, !.keys = DictKeys \ {"title"}]>>,
                         3)),
     JsonFile(ObjectData({"documents", "next_id"},
                         <<[SavedEntry EXCEPT !.status = DRAFT.value]>>, 2))}

InitEnv == \E f \in InitialFiles : InitWith(f)

\* add_document whose save raises
AddDocumentFails ==
    /\ faults < MaxFaults
    /\ faults' = faults + 1
    /\ \E t \in Titles, d \in Descriptions, io \in IoOutcomes \ {"ok"} : DoAdd(t, d, io)

\* change_document_status on a stored document whose save raises
ChangeDocumentStatusFails ==
    /\ faults < MaxFaults
    /\ faults' = faults + 1
    /\ \E i \in CallIds, a \in ChangeArgs, io \in IoOutcomes \ {"ok"} :
          dict_has(documents, i) /\ DoChange(i, a[1], a[2], io)

NextEnv == Next \/ AddDocumentFails \/ ChangeDocumentStatusFails

\* saves may fail and the first manager may find any file
SpecEnv == InitEnv /\ [][NextEnv]_vars

\* the calls that write the backing file, with saves that may fail, and the
\* construction of a new manager on what they left
NextFaults ==
    \/ AddDocument
    \/ ChangeDocumentStatus
    \/ AddDocumentFails
    \/ ChangeDocumentStatusFails
    \/ Reload
    \/ Tick

SpecFaults == Init /\ [][NextFaults]_vars

(* ============================== claims ================================= *)
StoredDocs == {documents[k].doc : k \in 1..Len(documents)}

IsPrefix(a, b) == Len(a) <= Len(b) /\ SubSeq(b, 1, Len(a)) = a

Last(seq) == seq[Len(seq)]

\* the file holds what save_documents writes for the in-memory state
Persisted(docs, nid, f) == f = save_documents(docs, nid, f, "ok").file

\* a new DocumentManager on the file gets the in-memory state
InSync ==
    LET l == load_documents(file, now)
    IN l.exc = "none" /\ l.documents = documents /\ l.next_id = next_id

(* C1: the ids returned by add_document, over adds interleaved with status
   changes and reloads from an absent file on, start at 1 and are strictly
   increasing, so no id is returned twice. *)
C1_IdsStrictlyIncreasing ==
    /\ returned # <<>> => returned[1] = 1
    /\ \A i, j \in 1..Len(returned) : i < j => returned[i] < returned[j]

\* a manager was constructed on the file after two adds had returned
C1_Witness == result.op = "init" /\ Len(returned) >= 2 /\ Len(documents) >= 2

(* C2 as stated: after every add_document or change_document_status call
   that returns normally, a new manager on the file has the same next_id and
   the same documents in the same order. *)
C2_Original ==
    (result.op \in {"add", "change"} /\ result.exc = "none") => InSync

(* C2 amended: after every add_document call that returns a Document and
   every change_document_status call that returns True, a new manager on the
   file has the same next_id and the same documents in the same order, equal
   in every field. *)
C2_SavedStateReloads ==
    (\/ result.op = "add" /\ result.ret.kind = "Document"
     \/ result.op = "change" /\ result.ret.kind = "True") => InSync

\* a status change returned True after an earlier save had failed
C2_Witness ==
    /\ result.op = "change" /\ result.ret.kind = "True"
    /\ faults > 0 /\ Len(documents) >= 2

(* C3: every stored document's history has 1 + (status changes applied to
   it) entries, its first entry is the creation record, and every step keeps
   the former history as a prefix of the new one, reloads included. *)
C3_HistoryCount ==
    \A d \in StoredDocs :
        /\ Len(d.history) = 1 + applied[d.id]
        /\ d.history[1] = CreationEntry(d.created_at)

C3_HistoryPrefix ==
    \A k \in 1..Len(documents) : \A j \in 1..Len(documents') :
        documents[k].key = documents'[j].key =>
            /\ IsPrefix(documents[k].doc.history, documents'[j].doc.history)
            /\ Len(documents'[j].doc.history) <= Len(documents[k].doc.history) + 1

C3_HistoryAppendOnly == []C3_HistoryCount /\ [][C3_HistoryPrefix]_vars

\* a twice-changed document came back from the file
C3_Witness ==
    result.op = "init" /\ \E d \in StoredDocs : Len(d.history) = 3 /\ applied[d.id] = 2

\* the status a transition entry names as the new one
EntryNewStatus(entry) == CHOOSE s \in DocumentStatus : s.value = entry[4]

(* C4: every stored document's status is the new status named by its last
   transition entry, or DRAFT when the history holds only the creation
   record. *)
C4_StatusMatchesHistory ==
    \A d \in StoredDocs :
        IF Len(d.history) = 1
        THEN d.status = DRAFT
        ELSE /\ Last(d.history)[4] \in StatusLabels
             /\ d.status = EntryNewStatus(Last(d.history))

\* a reloaded document whose last transition left DRAFT
C4_Witness ==
    result.op = "init" /\ \E d \in StoredDocs : Len(d.history) >= 2 /\ d.status # DRAFT

(* C5: for every stored document D, from_dict(to_dict(D)) raises nothing and
   equals D in all seven fields, and to_dict stores the status under its
   machine name, never its display label. *)
C5_RoundTrip ==
    \A d \in StoredDocs :
        /\ from_dict(to_dict(d), now) = [exc |-> "none", doc |-> <<d>>]
        /\ to_dict(d).status \in StatusNames \ StatusLabels
        /\ StatusByName(to_dict(d).status) = d.status
        /\ d.status = DRAFT => to_dict(d).status = "DRAFT"

\* a twice-changed document, converted later than it was last updated
C5_Witness ==
    \E d \in StoredDocs :
        Len(d.history) = 3 /\ d.status # DRAFT /\ d.updated_at # now

\* the file is there but its text is not JSON
MalformedText(f) == f.kind \in {"undecodable", "badjson"}

(* C6 as stated: a manager constructed while the backing file is absent or
   malformed raises nothing and has zero documents and next_id = 1. *)
C6_Original ==
    (result.op = "init" /\ (file.kind = "absent" \/ MalformedText(file))) =>
        /\ result.exc = "none"
        /\ alive
        /\ documents = <<>>
        /\ next_id = 1

(* C7: for an id that is not stored, get_document returns None and
   change_document_status returns False; neither raises nor changes the
   documents or next_id, and change_document_status leaves the file alone. *)
C7_UnknownIdStep ==
    \A i \in CallIds :
        ~dict_has(documents, i) =>
            /\ DoGet(i) =>
                  /\ result'.ret = RetNone /\ result'.exc = "none"
                  /\ UNCHANGED <<documents, next_id, file>>
            /\ \A a \in ChangeArgs :
                  DoChange(i, a[1], a[2], "ok") =>
                      /\ result'.ret = RetFalse /\ result'.exc = "none"
                      /\ ~result'.wrote
                      /\ UNCHANGED <<documents, next_id, file>>

C7_UnknownId == [][C7_UnknownIdStep]_vars

\* change_document_status returned False on a store that holds a document
C7_Witness ==
    result.op = "change" /\ result.ret.kind = "False" /\ documents # <<>>

(* C8: change_document_status with the document's current status appends
   exactly one entry, whose old and new label are that status, sets
   updated_at to the current time, returns True and saves. *)
C8_SameStatusStep ==
    \A i \in CallIds : \A a \in ChangeArgs :
        (/\ dict_has(documents, i)
         /\ dict_get(documents, i)[1].status = a[1]
         /\ DoChange(i, a[1], a[2], "ok")) =>
            LET old == dict_get(documents, i)[1]
                new == dict_get(documents', i)[1]
            IN /\ Len(new.history) = Len(old.history) + 1
               /\ IsPrefix(old.history, new.history)
               /\ Last(new.history)[2] = a[1].value
               /\ Last(new.history)[4] = a[1].value
               /\ new.status = a[1]
               /\ new.updated_at = now
               /\ result'.ret = RetTrue
               /\ result'.wrote /\ Persisted(documents', next_id', file')

C8_SameStatusNotNoOp == [][C8_SameStatusStep]_vars

\* a same-status change, made in a later second than the creation
C8_Witness ==
    /\ result.op = "change" /\ result.ret.kind = "True"
    /\ \E d \in StoredDocs :
          /\ Len(d.history) >= 2
          /\ Last(d.history)[2] = Last(d.history)[4]
          /\ d.updated_at # d.created_at
          /\ d.updated_at = now

(* C9: for every stored document, whatever its status, and every status t,
   change_document_status(id, t) returns True and leaves the document in
   status t; ARCHIVED is no exception. *)
C9_AnyTransitionStep ==
    \A i \in CallIds : \A a \in ChangeArgs :
        (dict_has(documents, i) /\ DoChange(i, a[1], a[2], "ok")) =>
            /\ result'.ret = RetTrue
            /\ dict_has(documents', i)
            /\ dict_get(documents', i)[1].status = a[1]

C9_TotalGraph == [][C9_AnyTransitionStep]_vars

\* a document went from DRAFT straight to ARCHIVED and then left ARCHIVED
C9_Witness ==
    /\ result.op = "change" /\ result.ret.kind = "True"
    /\ \E d \in StoredDocs :
          /\ Len(d.history) = 3
          /\ d.history[2][2] = DRAFT.value /\ d.history[2][4] = ARCHIVED.value
          /\ d.history[3][2] = ARCHIVED.value
          /\ d.status # ARCHIVED

(* C10: add_document returns a document whose id is next_id before the call,
   in status DRAFT, with created_at = updated_at and one creation entry; it
   adds 1 to next_id, stores the document, leaves the stored ones as they
   were, and saves; the first add on an empty store gives id 1 and a file
   with next_id 2 and one entry of status "DRAFT". *)
C10_AddStep ==
    \A t \in Titles, ds \in Descriptions :
        DoAdd(t, ds, "ok") =>
            /\ result'.ret.kind = "Document"
            /\ LET doc == result'.ret.doc[1]
               IN /\ doc.id = next_id
                  /\ doc.title = t /\ doc.description = ds
                  /\ doc.status = DRAFT
                  /\ doc.created_at = doc.updated_at
                  /\ doc.history = <<CreationEntry(doc.created_at)>>
                  /\ dict_get(documents', next_id) = <<doc>>
            /\ next_id' = next_id + 1
            /\ Len(documents') = Len(documents) + 1
            /\ SubSeq(documents', 1, Len(documents)) = documents
            /\ result'.wrote /\ Persisted(documents', next_id', file')
            /\ (documents = <<>> /\ next_id = 1) =>
                  /\ result'.ret.doc[1].id = 1
                  /\ file'.kind = "json"
                  /\ file'.data.next_id = 2
                  /\ Len(file'.data.documents) = 1
                  /\ file'.data.documents[1].status = "DRAFT"

C10_AddDocument == [][C10_AddStep]_vars

\* a second document was added and returned
C10_Witness ==
    /\ result.op = "add" /\ result.ret.kind = "Document"
    /\ result.ret.doc[1].id = 2
    /\ Len(documents) = 2 /\ next_id = 3

(* C11: for every store state and status S, the filter returns exactly the
   stored documents of status S, each once, in the order get_all_documents
   gives them, and an empty sequence when no document has status S; the
   store is left as it was. *)
C11_FilterStep ==
    \A S \in DocumentStatus :
        DoSearch(S) =>
            LET all == get_all_documents(documents)
                r == result'.ret.doc
                Matching == {k \in 1..Len(all) : all[k].status = S}
            IN /\ result'.ret.kind = "list" /\ result'.exc = "none"
               /\ \A j \in 1..Len(r) : r[j].status = S
               /\ \A k \in Matching : \E j \in 1..Len(r) : r[j] = all[k]
               /\ Len(r) = Cardinality(Matching)
               /\ \A j1, j2 \in 1..Len(r) :
                     j1 < j2 => \E k1, k2 \in 1..Len(all) :
                                   k1 < k2 /\ all[k1] = r[j1] /\ all[k2] = r[j2]
               /\ (Matching = {}) => r = <<>>
               /\ UNCHANGED <<documents, next_id, file>>

C11_FilterByStatus == [][C11_FilterStep]_vars

\* a search that returned some of the stored documents and left others out
C11_Witness ==
    /\ result.op = "search"
    /\ Len(result.ret.doc) >= 1
    /\ Len(result.ret.doc) < Len(documents)

\* lexicographic order of two timestamps in the fixed format (str < str)
RECURSIVE TsLess(_, _)
TsLess(a, b) ==
    IF a = <<>> \/ b = <<>>
    THEN a = <<>> /\ b # <<>>
    ELSE \/ Head(a) < Head(b)
         \/ Head(a) = Head(b) /\ TsLess(Tail(a), Tail(b))

TsLeq(a, b) == a = b \/ TsLess(a, b)

(* C12 as stated: after each change_status call on a document, its
   updated_at is later than its updated_at before the call. *)
C12_OriginalStep ==
    \A i \in CallIds : \A a \in ChangeArgs :
        (dict_has(documents, i) /\ DoChange(i, a[1], a[2], "ok")) =>
            TsLess(dict_get(documents, i)[1].updated_at,
                   dict_get(documents', i)[1].updated_at)

C12_Original == [][C12_OriginalStep]_vars

(* C12 amended: every change_status call sets the document's updated_at to
   the current time at second precision, which is never earlier than its
   updated_at before the call and is later exactly when the call falls in a
   later second than the previous update. *)
C12_UpdatedAtStep ==
    \A i \in CallIds : \A a \in ChangeArgs :
        (dict_has(documents, i) /\ DoChange(i, a[1], a[2], "ok")) =>
            LET old == dict_get(documents, i)[1]
                new == dict_get(documents', i)[1]
            IN /\ new.updated_at = now
               /\ TsLeq(old.updated_at, new.updated_at)
               /\ TsLess(old.updated_at, new.updated_at) <=> old.updated_at # now

C12_UpdatedAtIsCallTime == [][C12_UpdatedAtStep]_vars

\* a document changed twice, in the second of its creation and a second later
C12_Witness ==
    /\ result.op = "change" /\ result.ret.kind = "True"
    /\ \E d \in StoredDocs :
          /\ Len(d.history) = 3
          /\ Last(d.history[2]) = d.created_at
          /\ d.updated_at = now
          /\ TsLess(d.created_at, d.updated_at)

(* C13: every stored document has updated_at >= created_at in the order of
   the timestamp strings, and no step, reload included, makes a document's
   updated_at smaller (the clock never goes back). *)
C13_UpdatedNotBeforeCreated ==
    \A d \in StoredDocs : TsLeq(d.created_at, d.updated_at)

C13_UpdatedAtStep ==
    \A k \in 1..Len(documents) : \A j \in 1..Len(documents') :
        documents[k].key = documents'[j].key =>
            TsLeq(documents[k].doc.updated_at, documents'[j].doc.updated_at)

C13_UpdatedAtMonotonic == []C13_UpdatedNotBeforeCreated /\ [][C13_UpdatedAtStep]_vars

\* a document created before and updated after the minute changed
C13_Witness ==
    \E d \in StoredDocs :
        /\ d.created_at[1] < d.updated_at[1]
        /\ d.created_at[2] > d.updated_at[2]

(* C14: a change_document_status call that returns True leaves the changed
   document's id, title, description and created_at, every other document,
   the stored keys (and their order) and next_id as they were. *)
C14_FrameStep ==
    \A i \in CallIds : \A a \in ChangeArgs :
        (dict_has(documents, i) /\ DoChange(i, a[1], a[2], "ok")) =>
            /\ result'.ret = RetTrue
            /\ next_id' = next_id
            /\ Len(documents') = Len(documents)
            /\ \A k \in 1..Len(documents) :
                  LET old == documents[k].doc
                      new == documents'[k].doc
                  IN /\ documents'[k].key = documents[k].key
                     /\ documents[k].key # i => new = old
                     /\ documents[k].key = i =>
                           /\ new.id = old.id
                           /\ new.title = old.title
                           /\ new.description = old.description
                           /\ new.created_at = old.created_at
                           /\ new = [old EXCEPT !.status = new.status,
                                                !.updated_at = new.updated_at,
                                                !.history = new.history]

C14_ChangeFrame == [][C14_FrameStep]_vars

\* a status change made a second after creation, next to an untouched document
C14_Witness ==
    /\ result.op = "change" /\ result.ret.kind = "True"
    /\ Len(documents) >= 2
    /\ \E d \in StoredDocs : Len(d.history) = 2 /\ d.updated_at # d.created_at
    /\ \E d \in StoredDocs : Len(d.history) = 1

(* C15: the entry appended by change_status names the status before the call
   as old status and the argument as new status, ends with the timestamp
   written to updated_at, and has the comment suffix exactly when the
   comment is not empty. *)
C15_EntryStep ==
    \A i \in CallIds : \A a \in ChangeArgs :
        (dict_has(documents, i) /\ DoChange(i, a[1], a[2], "ok")) =>
            LET old == dict_get(documents, i)[1]
                new == dict_get(documents', i)[1]
                e == Last(new.history)
            IN /\ Len(new.history) = Len(old.history) + 1
               /\ e[2] = old.status.value
               /\ e[4] = a[1].value
               /\ Last(e) = new.updated_at
               /\ a[2] # "" => /\ Len(e) = 10
                               /\ <<e[6], e[7], e[8]>> = <<" (", a[2], ")">>
                               /\ e[9] = " - "
               /\ a[2] = "" => Len(e) = 7 /\ e[6] = " - "

C15_HistoryEntry == [][C15_EntryStep]_vars

\* a change with a comment has just followed a change without one
C15_Witness ==
    /\ result.op = "change" /\ result.ret.kind = "True"
    /\ \E d \in StoredDocs :
          /\ Len(d.history) = 3
          /\ Len(d.history[2]) = 7
          /\ Len(d.history[3]) = 10

(* C17: started from an absent file and driven by add, change_status and
   reloads of saved files, the stored keys are exactly 1..next_id-1, every
   document is stored under its own id, and no step removes a key or lowers
   next_id. *)
C17_KeysAreIds ==
    /\ {documents[k].key : k \in 1..Len(documents)} = 1..(next_id - 1)
    /\ \A k \in 1..Len(documents) : documents[k].key = documents[k].doc.id

C17_KeysStep ==
    /\ next_id' >= next_id
    /\ \A k \in 1..Len(documents) : dict_has(documents', documents[k].key)

C17_DenseIds == []C17_KeysAreIds /\ [][C17_KeysStep]_vars

\* a manager constructed on a saved file holding two documents
C17_Witness ==
    /\ result.op = "init"
    /\ Len(documents) = 2
    /\ next_id = 3

\* the status whose label a transition entry names as the old one
EntryOldStatus(entry) == CHOOSE s \in DocumentStatus : s.value = entry[2]

(* C18: in every document's history the first transition entry names Draft
   as old status, and every later transition entry names as old status the
   new status of the entry before it. *)
C18_HistoryChain ==
    \A d \in StoredDocs :
        /\ Len(d.history) >= 2 => EntryOldStatus(d.history[2]) = DRAFT
        /\ \A k \in 3..Len(d.history) :
              EntryOldStatus(d.history[k]) = EntryNewStatus(d.history[k - 1])

\* two transitions, neither to the status the document already had
C18_Witness ==
    \E d \in StoredDocs :
        /\ Len(d.history) = 3
        /\ EntryNewStatus(d.history[2]) # DRAFT
        /\ EntryNewStatus(d.history[3]) # EntryOldStatus(d.history[3])

(* C16: when writing the backing file fails inside add_document or inside
   change_document_status on a stored document, the call raises the I/O
   error to its caller and returns neither a Document nor True. *)
C16_FailedSaveStep ==
    \A io \in IoOutcomes \ {"ok"} :
        /\ \A t \in Titles, ds \in Descriptions :
              (result'.op = "add" /\ DoAdd(t, ds, io)) =>
                  /\ result'.exc = "OSError"
                  /\ result'.ret = RetRaise
                  /\ returned' = returned
        /\ \A i \in CallIds : \A a \in ChangeArgs :
              (result'.op = "change" /\ dict_has(documents, i) /\ DoChange(i, a[1], a[2], io)) =>
                  /\ result'.exc = "OSError"
                  /\ result'.ret = RetRaise

C16_SaveErrorPropagates == [][C16_FailedSaveStep]_vars

\* a status change on a stored document ended with the error of its save
C16_Witness ==
    /\ result.op = "change"
    /\ result.exc = "OSError"
    /\ result.ret.kind = "raise"
    /\ documents # <<>>

(* C19: a save that fails inside add_document leaves the new document stored
   and next_id advanced, and one that fails inside change_document_status
   leaves the status, updated_at and history changed; a manager's stored ids
   are always below its next_id, so a later add of the same manager takes a
   fresh id; and every later add or status change whose save succeeds writes
   the whole in-memory state, earlier unsaved changes included. *)
C19_IdsBelowNextId ==
    alive => \A k \in 1..Len(documents) : documents[k].key < next_id

C19_NoRollbackStep ==
    \A io \in IoOutcomes :
        /\ \A t \in Titles, ds \in Descriptions :
              (result'.op = "add" /\ DoAdd(t, ds, io)) =>
                  /\ ~dict_has(documents, next_id)
                  /\ next_id' = next_id + 1
                  /\ SubSeq(documents', 1, Len(documents)) = documents
                  /\ dict_get(documents', next_id) = <<Document(next_id, t, ds, now)>>
                  /\ io = "ok" => Persisted(documents', next_id', file')
                  /\ io # "ok" => ~Persisted(documents', next_id', file')
        /\ \A i \in CallIds : \A a \in ChangeArgs :
              (result'.op = "change" /\ dict_has(documents, i) /\ DoChange(i, a[1], a[2], io)) =>
                  LET old == dict_get(documents, i)[1]
                      new == dict_get(documents', i)[1]
                  IN /\ new.status = a[1]
                     /\ new.updated_at = now
                     /\ new.history = Append(old.history, Last(new.history))
                     /\ next_id' = next_id
                     /\ \A k \in 1..Len(documents) :
                           documents[k].key # i => documents'[k] = documents[k]
                     /\ io = "ok" => Persisted(documents', next_id', file')
                     /\ io # "ok" => ~Persisted(documents', next_id', file')

C19_NoRollback == []C19_IdsBelowNextId /\ [][C19_NoRollbackStep]_vars

\* an add whose save succeeded wrote both its document and the document of
\* an earlier add whose save had failed
C19_Witness ==
    /\ result.op = "add" /\ result.ret.kind = "Document"
    /\ faults = 1
    /\ Len(returned) = 1 /\ returned[1] = 2
    /\ file.kind = "json"
    /\ Len(file.data.documents) = 2
    /\ Persisted(documents, next_id, file)

====
